---------------------------- MODULE Spec2Model ----------------------------
(***************************************************************************)
(* copygen: the header-processing engine (package header).                *)
(*                                                                         *)
(* Strings and file contents are sequences of one-character strings.      *)
(* The cached Processor (src/unnamed/part_000) is the one modelled; the   *)
(* uncached variant (src/internal/header/header.go) has the same          *)
(* buildHeader and the same file system steps in addHeader.               *)
(***************************************************************************)
EXTENDS Integers, Sequences, FiniteSets, TLC

LF == "\n"
CR == "\r"
Separator == "/"

(***************************************************************************)
(* Bounds of the model.                                                    *)
(***************************************************************************)
MaxTplLen == 2
MaxBodyLen == 1
MaxRuns == 2
MaxDepth == 2
MaxPatterns == 2
MaxTail == 2
NumCallers == 3
MaxBuildLen == 4

\* len(p.cfg.Header) < 1024 decides whether Process warms the cache.
WarmThreshold == 1024

(***************************************************************************)
(* strings package                                                         *)
(***************************************************************************)
RECURSIVE SeqsUpTo(_, _)
SeqsUpTo(S, n) ==
    IF n = 0 THEN {<<>>}
    ELSE LET shorter == SeqsUpTo(S, n - 1)
         IN  shorter \cup {Append(s, c) : s \in {t \in shorter : Len(t) = n - 1}, c \in S}

HasPrefix(s, p) == Len(p) <= Len(s) /\ SubSeq(s, 1, Len(p)) = p

HasSuffix(s, p) ==
    Len(p) <= Len(s) /\ SubSeq(s, Len(s) - Len(p) + 1, Len(s)) = p

TrimSuffix(s, p) ==
    IF HasSuffix(s, p) THEN SubSeq(s, 1, Len(s) - Len(p)) ELSE s

Contains(s, p) ==
    \E i \in 1..(Len(s) - Len(p) + 1) : SubSeq(s, i, i + Len(p) - 1) = p

\* Index of the first c in s, 0 when absent.
IndexOf(s, c) ==
    IF \E i \in 1..Len(s) : s[i] = c
    THEN CHOOSE i \in 1..Len(s) : s[i] = c /\ \A j \in 1..(i - 1) : s[j] # c
    ELSE 0

\* strings.Split(s, "\n"): always at least one element.
RECURSIVE Split(_)
Split(s) ==
    LET i == IndexOf(s, LF)
    IN  IF i = 0 THEN <<s>>
        ELSE <<SubSeq(s, 1, i - 1)>> \o Split(SubSeq(s, i + 1, Len(s)))

\* strings.Join(lines, "\n")
RECURSIVE Join(_)
Join(lines) ==
    IF Len(lines) = 0 THEN <<>>
    ELSE IF Len(lines) = 1 THEN lines[1]
    ELSE lines[1] \o <<LF>> \o Join(Tail(lines))

(***************************************************************************)
(* commentPrefixes: extension -> comment prefix.                           *)
(***************************************************************************)
GoExt == <<".", "g", "o">>
Slashes == <<"/", "/">>
commentPrefixes == [e \in {GoExt} |-> Slashes]

(***************************************************************************)
(* buildHeader                                                             *)
(***************************************************************************)
\* A builder that leaves the trailing empty comments in place.
TrimTrailingNone(header, prefix) == header

RECURSIVE TrimTrailing(_, _)
TrimTrailing(header, prefix) ==
    IF Len(header) > 0 /\ header[Len(header)] = prefix
    THEN TrimTrailing(SubSeq(header, 1, Len(header) - 1), prefix)
    ELSE header

CommentLine(line, prefix) ==
    IF line = <<>> THEN prefix ELSE prefix \o <<" ">> \o line

buildHeader(tpl, prefix) ==
    LET lines == Split(tpl)
        header == [i \in 1..Len(lines) |-> CommentLine(lines[i], prefix)]
    IN  TrimTrailing(header, prefix)

\* headerBytes := []byte(strings.Join(header, "\n") + "\n\n")
HeaderBytes(header) == Join(header) \o <<LF, LF>>

(***************************************************************************)
(* bufio.Scanner with the default split function bufio.ScanLines: a token  *)
(* is the data up to the next "\n" with one trailing "\r" dropped; at the  *)
(* end of the data a non-empty remainder is the last token.  A read error  *)
(* after k bytes ends the data there and is what scanner.Err() reports.    *)
(***************************************************************************)
dropCR(data) ==
    IF Len(data) > 0 /\ data[Len(data)] = CR
    THEN SubSeq(data, 1, Len(data) - 1)
    ELSE data

\* scanner.Scan() from position pos (1-based) of data.
ScanLine(data, pos) ==
    LET rest == SubSeq(data, pos, Len(data))
        i == IndexOf(rest, LF)
    IN  IF Len(rest) = 0 THEN [ok |-> FALSE, text |-> <<>>, next |-> pos]
        ELSE IF i > 0
        THEN [ok |-> TRUE, text |-> dropCR(SubSeq(rest, 1, i - 1)), next |-> pos + i]
        ELSE [ok |-> TRUE, text |-> dropCR(rest), next |-> Len(data) + 1]

(***************************************************************************)
(* The outcome of the file system calls of one operation, chosen by the    *)
(* environment: open fails, or the read fails after readErrAt bytes        *)
(* (-1: the whole file is read).                                           *)
(***************************************************************************)
\* An error is the sequence of its messages, outermost first; nil is empty.
NoErr == <<>>
NoReadErr == -1

ReadableData(content, readErrAt) ==
    IF readErrAt = NoReadErr \/ readErrAt > Len(content) THEN content
    ELSE SubSeq(content, 1, readErrAt)

ScannerErr(content, readErrAt) ==
    IF readErrAt = NoReadErr \/ readErrAt > Len(content) THEN NoErr ELSE <<"read error">>

\* The loop of checkHeader over the header lines, from line i at position pos.
\* A comparison that stops one header line early.
RECURSIVE CompareLinesButLast(_, _, _, _, _)
CompareLinesButLast(header, i, data, pos, scanErr) ==
    IF i >= Len(header) THEN [has |-> TRUE, err |-> NoErr]
    ELSE LET tok == ScanLine(data, pos)
         IN  IF ~tok.ok THEN [has |-> FALSE, err |-> scanErr]
             ELSE IF tok.text # header[i] THEN [has |-> FALSE, err |-> NoErr]
             ELSE CompareLinesButLast(header, i + 1, data, tok.next, scanErr)

RECURSIVE CompareLines(_, _, _, _, _)
CompareLines(header, i, data, pos, scanErr) ==
    IF i > Len(header) THEN [has |-> TRUE, err |-> NoErr]
    ELSE LET tok == ScanLine(data, pos)
         IN  IF ~tok.ok THEN [has |-> FALSE, err |-> scanErr]
             ELSE IF tok.text # header[i] THEN [has |-> FALSE, err |-> NoErr]
             ELSE CompareLines(header, i + 1, data, tok.next, scanErr)

\* checkHeader without its two early returns.
checkHeaderUnguarded(tpl, header, content, openFails, readErrAt) ==
    IF openFails THEN [has |-> FALSE, err |-> <<"open error">>, opened |-> TRUE]
    ELSE LET r == CompareLines(header, 1, ReadableData(content, readErrAt), 1,
                               ScannerErr(content, readErrAt))
         IN  [has |-> r.has, err |-> r.err, opened |-> TRUE]

\* checkHeader(path, prefix): header is what getHeader(prefix) returned.
\* opened records whether os.Open was called.
checkHeader(tpl, header, content, openFails, readErrAt) ==
    IF tpl = <<>> THEN [has |-> TRUE, err |-> NoErr, opened |-> FALSE]
    ELSE IF Len(header) = 0 THEN [has |-> TRUE, err |-> NoErr, opened |-> FALSE]
    ELSE IF openFails THEN [has |-> FALSE, err |-> <<"open error">>, opened |-> TRUE]
    ELSE LET r == CompareLines(header, 1, ReadableData(content, readErrAt), 1,
                               ScannerErr(content, readErrAt))
         IN  [has |-> r.has, err |-> r.err, opened |-> TRUE]

\* The uncached Processor's peekHeader(path, prefix): it builds the expected
\* header on every call.
peekHeader(tpl, prefix, content, openFails, readErrAt) ==
    IF tpl = <<>> THEN [has |-> TRUE, err |-> NoErr, opened |-> FALSE]
    ELSE LET expectedHeader == buildHeader(tpl, prefix)
         IN  IF Len(expectedHeader) = 0
             THEN [has |-> TRUE, err |-> NoErr, opened |-> FALSE]
             ELSE IF openFails
             THEN [has |-> FALSE, err |-> <<"open error">>, opened |-> TRUE]
             ELSE LET r == CompareLines(expectedHeader, 1,
                                        ReadableData(content, readErrAt), 1,
                                        ScannerErr(content, readErrAt))
                  IN  [has |-> r.has, err |-> r.err, opened |-> TRUE]

(***************************************************************************)
(* path/filepath on a build whose Separator is "/": Ext, ToSlash and Match *)
(* (Match as the Go library computes it: scanChunk, matchChunk, getEsc).   *)
(***************************************************************************)
\* filepath.Ext: the suffix from the last "." of the last path element.
RECURSIVE ExtFrom(_, _)
ExtFrom(path, i) ==
    IF i < 1 \/ path[i] = Separator THEN <<>>
    ELSE IF path[i] = "." THEN SubSeq(path, i, Len(path))
    ELSE ExtFrom(path, i - 1)

Ext(path) == ExtFrom(path, Len(path))

\* filepath.ToSlash: every Separator becomes "/".
ToSlash(path) == [i \in 1..Len(path) |-> IF path[i] = Separator THEN "/" ELSE path[i]]

Letters ==
    <<"a", "b", "c", "d", "e", "f", "g", "h", "i", "j", "k", "l", "m",
      "n", "o", "p", "q", "r", "s", "t", "u", "v", "w", "x", "y", "z">>

\* The code point of a character; NUL is the zero rune.
NUL == "NUL"
Ord(c) ==
    IF \E i \in 1..Len(Letters) : Letters[i] = c
    THEN 96 + (CHOOSE i \in 1..Len(Letters) : Letters[i] = c)
    ELSE CASE c = NUL -> 0
           [] c = "*" -> 42
           [] c = "-" -> 45
           [] c = "." -> 46
           [] c = "/" -> 47
           [] c = "?" -> 63
           [] c = "[" -> 91
           [] c = "\\" -> 92
           [] c = "]" -> 93
           [] c = "^" -> 94
           [] c = "_" -> 95

BadPattern == [err |-> TRUE, r |-> NUL, rest |-> <<>>]

\* getEsc: one (possibly escaped) character of a character class.
getEsc(chunk) ==
    IF Len(chunk) = 0 \/ chunk[1] = "-" \/ chunk[1] = "]" THEN BadPattern
    ELSE LET c == IF chunk[1] = "\\" THEN Tail(chunk) ELSE chunk
         IN  IF Len(c) = 0 THEN BadPattern
             ELSE IF Len(c) = 1 THEN BadPattern
             ELSE [err |-> FALSE, r |-> c[1], rest |-> Tail(c)]

\* The "parse all ranges" loop of matchChunk.
RECURSIVE classRanges(_, _, _, _)
classRanges(chunk, r, match, nrange) ==
    IF Len(chunk) > 0 /\ chunk[1] = "]" /\ nrange > 0
    THEN [err |-> FALSE, match |-> match, rest |-> Tail(chunk)]
    ELSE LET lo == getEsc(chunk)
         IN  IF lo.err THEN [err |-> TRUE, match |-> FALSE, rest |-> <<>>]
             ELSE LET hi == IF lo.rest[1] = "-" THEN getEsc(Tail(lo.rest)) ELSE lo
                  IN  IF hi.err THEN [err |-> TRUE, match |-> FALSE, rest |-> <<>>]
                      ELSE classRanges(hi.rest, r,
                                       match \/ (Ord(lo.r) <= Ord(r) /\ Ord(r) <= Ord(hi.r)),
                                       nrange + 1)

ChunkErr == [rest |-> <<>>, ok |-> FALSE, err |-> TRUE]

\* matchChunk(chunk, s); failed is the loop's flag, FALSE at the call.
RECURSIVE matchChunkFrom(_, _, _)
matchChunkFrom(chunk, s, wasFailed) ==
    IF Len(chunk) = 0
    THEN IF wasFailed THEN [rest |-> <<>>, ok |-> FALSE, err |-> FALSE]
         ELSE [rest |-> s, ok |-> TRUE, err |-> FALSE]
    ELSE LET failed == wasFailed \/ Len(s) = 0
             s1 == IF failed THEN s ELSE Tail(s)
         IN  IF chunk[1] = "["
             THEN LET r == IF failed THEN NUL ELSE s[1]
                      c1 == Tail(chunk)
                      negated == Len(c1) > 0 /\ c1[1] = "^"
                      cl == classRanges(IF negated THEN Tail(c1) ELSE c1, r, FALSE, 0)
                  IN  IF cl.err THEN ChunkErr
                      ELSE matchChunkFrom(cl.rest, s1, failed \/ (cl.match = negated))
             ELSE IF chunk[1] = "?"
             THEN matchChunkFrom(Tail(chunk), s1, failed \/ s[1] = Separator)
             ELSE LET c == IF chunk[1] = "\\" THEN Tail(chunk) ELSE chunk
                  IN  IF Len(c) = 0 THEN ChunkErr
                      ELSE matchChunkFrom(Tail(c), s1, failed \/ c[1] # s[1])

matchChunk(chunk, s) == matchChunkFrom(chunk, s, FALSE)

\* scanChunk: the index (0-based) at which the chunk ends.
RECURSIVE chunkEnd(_, _, _)
chunkEnd(pattern, i, inrange) ==
    IF i >= Len(pattern) THEN i
    ELSE LET c == pattern[i + 1]
         IN  IF c = "\\" THEN chunkEnd(pattern, IF i + 1 < Len(pattern) THEN i + 2 ELSE i + 1, inrange)
             ELSE IF c = "[" THEN chunkEnd(pattern, i + 1, TRUE)
             ELSE IF c = "]" THEN chunkEnd(pattern, i + 1, FALSE)
             ELSE IF c = "*" /\ ~inrange THEN i
             ELSE chunkEnd(pattern, i + 1, inrange)

RECURSIVE dropStars(_)
dropStars(pattern) ==
    IF Len(pattern) > 0 /\ pattern[1] = "*" THEN dropStars(Tail(pattern)) ELSE pattern

scanChunk(pattern) ==
    LET p == dropStars(pattern)
        i == chunkEnd(p, 0, FALSE)
    IN  [star |-> Len(pattern) > 0 /\ pattern[1] = "*",
         chunk |-> SubSeq(p, 1, i),
         rest |-> SubSeq(p, i + 1, Len(p))]

\* The syntax check of the unmatched remainder of the pattern.
RECURSIVE restMalformed(_)
restMalformed(pattern) ==
    IF Len(pattern) = 0 THEN FALSE
    ELSE LET sc == scanChunk(pattern)
         IN  matchChunk(sc.chunk, <<>>).err \/ restMalformed(sc.rest)

RECURSIVE Match(_, _)
RECURSIVE matchAfterStar(_, _, _, _)

\* "Look for match skipping i+1 bytes. Cannot skip /."
matchAfterStar(chunk, pattern, name, i) ==
    IF i < Len(name) /\ name[i + 1] # Separator
    THEN LET m == matchChunk(chunk, SubSeq(name, i + 2, Len(name)))
         IN  IF m.ok
             THEN IF Len(pattern) = 0 /\ Len(m.rest) > 0
                  THEN matchAfterStar(chunk, pattern, name, i + 1)
                  ELSE Match(pattern, m.rest)
             ELSE IF m.err THEN [matched |-> FALSE, err |-> TRUE]
             ELSE matchAfterStar(chunk, pattern, name, i + 1)
    ELSE [matched |-> FALSE, err |-> restMalformed(pattern)]

\* filepath.Match(pattern, name)
Match(pattern, name) ==
    IF Len(pattern) = 0 THEN [matched |-> Len(name) = 0, err |-> FALSE]
    ELSE LET sc == scanChunk(pattern)
             m == matchChunk(sc.chunk, name)
         IN  IF sc.star /\ Len(sc.chunk) = 0
             THEN [matched |-> ~Contains(name, <<Separator>>), err |-> FALSE]
             ELSE IF m.ok /\ (Len(m.rest) = 0 \/ Len(sc.rest) > 0)
             THEN Match(sc.rest, m.rest)
             ELSE IF m.err THEN [matched |-> FALSE, err |-> TRUE]
             ELSE IF sc.star THEN matchAfterStar(sc.chunk, sc.rest, name, 0)
             ELSE [matched |-> FALSE, err |-> restMalformed(sc.rest)]

(***************************************************************************)
(* isExcluded                                                              *)
(***************************************************************************)
\* A directory test that knows the recursive wildcard only.
IsDirPatternGlobOnly(pattern) == Contains(pattern, <<"*", "*">>)

IsDirPattern(pattern) ==
    Contains(pattern, <<"*", "*">>) \/ HasSuffix(pattern, <<"/">>)

DirPattern(pattern) == TrimSuffix(pattern, <<"/">>) \o <<"/">>

\* A loop body that goes on to the directory test after a pattern error.
MatchesPatternAfterErr(pattern, normPath) ==
    LET m == Match(pattern, normPath)
    IN  (~m.err /\ m.matched)
        \/ (IsDirPattern(pattern) /\ HasPrefix(normPath \o <<"/">>, DirPattern(pattern)))

MatchesPattern(pattern, normPath) ==
    LET m == Match(pattern, normPath)
    IN  IF m.err THEN FALSE
        ELSE m.matched
             \/ (IsDirPattern(pattern) /\ HasPrefix(normPath \o <<"/">>, DirPattern(pattern)))

isExcluded(excl, path) ==
    LET normPath == ToSlash(path)
    IN  \E k \in 1..Len(excl) : MatchesPattern(excl[k], normPath)

(***************************************************************************)
(* The header cache: a map from comment prefix to built header.            *)
(***************************************************************************)
EmptyCache == [q \in {} |-> <<>>]

\* A store that makes a new map holding the one entry.
CachePutAlone(c, prefix, header) == [q \in {prefix} |-> header]

CachePut(c, prefix, header) ==
    [q \in DOMAIN c \cup {prefix} |-> IF q = prefix THEN header ELSE c[q]]

\* getHeader as one uninterrupted call: the value returned and the cache after.
getHeader(c, tpl, prefix) ==
    IF prefix \in DOMAIN c THEN [header |-> c[prefix], cache |-> c]
    ELSE [header |-> buildHeader(tpl, prefix),
          cache |-> CachePut(c, prefix, buildHeader(tpl, prefix))]

Prefixes == {commentPrefixes[e] : e \in DOMAIN commentPrefixes}

\* A warm-up that stores the comment lines without trimming them.
warmCacheUntrimmed(c, tpl) ==
    [q \in DOMAIN c \cup Prefixes |->
        IF q \in DOMAIN c THEN c[q]
        ELSE [i \in 1..Len(Split(tpl)) |-> CommentLine(Split(tpl)[i], q)]]

\* warmCache as one uninterrupted call.
warmCache(c, tpl) ==
    [q \in DOMAIN c \cup Prefixes |->
        IF q \in DOMAIN c THEN c[q] ELSE buildHeader(tpl, q)]

(***************************************************************************)
(* The tree under p.dir = ".", in the order filepath.Walk visits it        *)
(* (lexical within each directory).                                        *)
(***************************************************************************)
PathRoot == <<".">>
PathA == <<"a", ".", "g", "o">>
PathB == <<"b", ".", "t", "x", "t">>
PathV == <<"v">>
PathVC == <<"v", "/", "c", ".", "g", "o">>

WalkOrder ==
    << [path |-> PathRoot, isDir |-> TRUE],
       [path |-> PathA, isDir |-> FALSE],
       [path |-> PathB, isDir |-> FALSE],
       [path |-> PathV, isDir |-> TRUE],
       [path |-> PathVC, isDir |-> FALSE] >>

FilePaths == {WalkOrder[i].path : i \in {j \in 1..Len(WalkOrder) : ~WalkOrder[j].isDir}}

\* filepath.Dir of a walked file path.
RECURSIVE DirFrom(_, _)
DirFrom(path, i) ==
    IF i < 1 THEN <<".">>
    ELSE IF path[i] = Separator THEN SubSeq(path, 1, i - 1)
    ELSE DirFrom(path, i - 1)

Dir(path) == DirFrom(path, Len(path))

\* The configurations and trees a run starts from.
Templates == SeqsUpTo({"a", LF, CR}, MaxTplLen)
Bodies == SeqsUpTo({"x", LF}, MaxBodyLen)
ExcludeLists ==
    { <<>>,
      << <<"v", "/", "*", "*">> >>,
      << <<"v", "/">> >>,
      << <<"*", ".", "g", "o">> >> }

\* A file either lacks the header or starts with the bytes addHeader writes.
InitialContents(tpl) ==
    Bodies \cup {HeaderBytes(buildHeader(tpl, Slashes)) \o b : b \in Bodies}

InitialTrees(tpl) ==
    { [p \in FilePaths |->
          IF p = PathA THEN [content |-> ca, mode |-> "0644"]
          ELSE IF p = PathVC THEN [content |-> cc, mode |-> "0755"]
          ELSE [content |-> <<"x">>, mode |-> "0644"]]
      : ca \in InitialContents(tpl),
        cc \in {<<"x">>, HeaderBytes(buildHeader(tpl, Slashes)) \o <<"x">>} }

(***************************************************************************)
(* State.                                                                  *)
(***************************************************************************)
VARIABLES
    cfgHeader,   \* p.cfg.Header
    exclude,     \* p.exclude
    dryRun,      \* p.dryRun
    cache,       \* p.cache
    files,       \* the regular files of the tree: path -> content and mode
    tmpFiles,    \* the temporary files present in the tree
    tmpSeq,      \* how many temporary files os.CreateTemp has made
    pc,          \* where Process() stands
    idx,         \* the entry of WalkOrder the walk visits next
    err,         \* what Process() returned
    cur,         \* the locals of the running addHeader call
    rendered,    \* the strings p.view.Render received during this run
    pre,         \* the files as they were when this run began
    mutated,     \* the paths renamed over during this run
    opened,      \* the paths os.Open was called on during this run
    calls,       \* the paths addHeader was called on during this run
    checked,     \* the results of the checkHeader calls of this run
    faulty,      \* whether a file system or writer call failed during this run
    runNo,       \* which Process() run this is
    gor,         \* the goroutines calling getHeader / warmCache concurrently
    mu,          \* p.cacheMu
    builds,      \* how often buildHeader ran, per prefix
    unc,         \* the uncached Processor run on the same tree, step for step
    call,        \* the arguments of a single function call
    ret          \* what that call returned

cfgVars == <<cfgHeader, exclude, dryRun>>
fsVars == <<files, tmpFiles, tmpSeq>>
runVars == <<pc, idx, err, cur, rendered, pre, mutated, opened, calls, checked, faulty,
             runNo, unc>>
goVars == <<gor, mu, builds>>
callVars == <<call, ret>>
vars == <<cfgVars, cache, fsVars, runVars, goVars, callVars>>

NoCur ==
    [path |-> <<>>, prefix |-> <<>>, headerBytes |-> <<>>,
     tmpPath |-> 0, tmp |-> "nil", retErr |-> NoErr, chmod |-> "none"]
NoCall == [op |-> "none"]
NoMu == [readers |-> {}, writer |-> 0, held |-> FALSE]
NoGor == <<>>
NoBuilds == [q \in {} |-> 0]

(***************************************************************************)
(* Process(): the walk.                                                    *)
(***************************************************************************)
(***************************************************************************)
(* The uncached Processor (internal/header/header.go) on the same tree     *)
(* with the same outcomes of the file system calls: unc holds its files,   *)
(* its peekHeader results, the files it renamed over, whether it is in     *)
(* addHeader, and that call's headerBytes and temp file content.           *)
(***************************************************************************)
UncStart(fs) ==
    [files |-> [p \in DOMAIN fs |-> fs[p].content], decisions |-> {},
     mutated |-> {}, adding |-> FALSE, headerBytes |-> <<>>, tmp |-> <<>>]

\* hasHeader, err := p.peekHeader(path, prefix) and what the callback does next.
UncVisit(path, prefix, openFails, readErrAt) ==
    LET r == peekHeader(cfgHeader, prefix, unc.files[path], openFails, readErrAt)
    IN  [unc EXCEPT !.decisions = @ \cup {[path |-> path, has |-> r.has, err |-> r.err]},
                    !.adding = (r.err = NoErr /\ ~r.has /\ ~dryRun)]

\* header := p.buildHeader(prefix); headerBytes
UncOpen(prefix) ==
    [unc EXCEPT !.headerBytes = HeaderBytes(buildHeader(cfgHeader, prefix))]

\* tmp.Write(headerBytes), of which n bytes get written
UncWrite(n) ==
    [unc EXCEPT !.tmp = SubSeq(unc.headerBytes, 1,
                               IF n < Len(unc.headerBytes) THEN n
                               ELSE Len(unc.headerBytes))]

\* io.Copy(tmp, f), of which n bytes get copied
UncCopy(path, n) ==
    [unc EXCEPT !.tmp = unc.tmp \o SubSeq(unc.files[path], 1,
                               IF n < Len(unc.files[path]) THEN n
                               ELSE Len(unc.files[path]))]

\* os.Rename(tmpPath, path)
UncRename(path) ==
    IF unc.adding
    THEN [unc EXCEPT !.files[path] = unc.tmp, !.mutated = @ \cup {path}]
    ELSE unc

Init ==
    /\ cfgHeader \in Templates
    /\ exclude \in ExcludeLists
    /\ dryRun \in BOOLEAN
    /\ cache = EmptyCache
    /\ files \in InitialTrees(cfgHeader)
    /\ tmpFiles = {}
    /\ tmpSeq = 0
    /\ pc = "start"
    /\ idx = 1
    /\ err = NoErr
    /\ cur = NoCur
    /\ rendered = <<>>
    /\ pre = files
    /\ mutated = {}
    /\ opened = {}
    /\ calls = {}
    /\ checked = {}
    /\ faulty = FALSE
    /\ runNo = 1
    /\ unc = UncStart(files)
    /\ gor = NoGor
    /\ mu = NoMu
    /\ builds = NoBuilds
    /\ call = NoCall
    /\ ret = NoCall

\* "Warm up the cache for small configs", then the walk begins.
ProcessBegin ==
    /\ pc = "start"
    /\ cache' = IF Len(cfgHeader) < WarmThreshold THEN warmCache(cache, cfgHeader) ELSE cache
    /\ pc' = "walk"
    /\ idx' = 1
    /\ UNCHANGED <<cfgVars, fsVars, err, cur, rendered, pre, mutated, opened, calls,
                   checked, faulty, runNo, unc, goVars, callVars>>

\* The strings handed to p.view.Render; path stands for filepath.Clean(path),
\* which leaves the paths filepath.Walk builds as they are.
WouldAdd(path) == [kind |-> "Would add header to", path |-> path]
Added(path) == [kind |-> "Added header to", path |-> path]

\* checkHeader as Process calls it: the header comes from getHeader unless
\* the template is empty.
CheckFile(path, prefix, openFails, readErrAt) ==
    checkHeader(cfgHeader, getHeader(cache, cfgHeader, prefix).header,
                files[path].content, openFails, readErrAt)

CacheAfterCheck(prefix) ==
    IF cfgHeader = <<>> THEN cache ELSE getHeader(cache, cfgHeader, prefix).cache

\* What the callback does with checkHeader's result r.
\* A walk that adds the header whether or not DryRun is set.
VisitOutcomeIgnoringDryRun(r, dry) ==
    IF r.err # NoErr THEN "check failed"
    ELSE IF r.has THEN "skip"
    ELSE "add"

\* A walk that passes over a file whose check failed.
VisitOutcomeIgnoringErr(r, dry) ==
    IF r.err # NoErr THEN "skip"
    ELSE IF r.has THEN "skip"
    ELSE IF dry THEN "report"
    ELSE "add"

\* A walk that does not skip the files that have the header.
VisitOutcomeIgnoringHas(r, dry) ==
    IF r.err # NoErr THEN "check failed"
    ELSE IF dry THEN "report"
    ELSE "add"

VisitOutcome(r, dry) ==
    IF r.err # NoErr THEN "check failed"
    ELSE IF r.has THEN "skip"
    ELSE IF dry THEN "report"
    ELSE "add"

\* The callback filepath.Walk runs for one entry, up to the call of addHeader.
Visit ==
    /\ pc = "walk"
    /\ idx <= Len(WalkOrder)
    /\ LET entry == WalkOrder[idx]
           path == entry.path
           ext == Ext(path)
       IN  \/ \* if err != nil { return err }
              /\ pc' = "done"
              /\ err' = <<"walk dir", "lstat error">>
              /\ faulty' = TRUE
              /\ UNCHANGED <<idx, cache, cur, rendered, opened, calls, checked, unc>>
           \/ \* a directory, an unregistered extension, an excluded path
              /\ entry.isDir \/ ext \notin DOMAIN commentPrefixes
                             \/ isExcluded(exclude, path)
              /\ idx' = idx + 1
              /\ UNCHANGED <<pc, err, cache, cur, rendered, opened, calls, checked, faulty,
                             unc>>
           \/ /\ ~entry.isDir
              /\ ext \in DOMAIN commentPrefixes
              /\ ~isExcluded(exclude, path)
              /\ \E openFails \in BOOLEAN,
                    readErrAt \in {NoReadErr} \cup 0..Len(files[path].content),
                    writeFails \in BOOLEAN :
                   LET prefix == commentPrefixes[ext]
                       r == CheckFile(path, prefix, openFails, readErrAt)
                       outcome == VisitOutcome(r, dryRun)
                   IN  /\ openFails => readErrAt = NoReadErr
                       /\ writeFails => outcome = "report"
                       /\ r.opened \/ (~openFails /\ readErrAt = NoReadErr)
                       /\ cache' = CacheAfterCheck(prefix)
                       /\ checked' = checked \cup
                             {[path |-> path, has |-> r.has, err |-> r.err,
                               opened |-> r.opened]}
                       /\ opened' = IF r.opened THEN opened \cup {path} ELSE opened
                       /\ faulty' = (faulty \/ openFails \/ readErrAt # NoReadErr
                                             \/ writeFails)
                       /\ pc' = CASE outcome = "check failed" -> "done"
                                  [] outcome = "skip" -> "walk"
                                  [] outcome = "report" ->
                                        IF writeFails THEN "panic" ELSE "walk"
                                  [] outcome = "add" -> "addHeader"
                       /\ err' = IF outcome = "check failed"
                                 THEN <<"walk dir", "check header">> \o r.err
                                 ELSE err
                       /\ idx' = IF outcome = "skip" \/ (outcome = "report" /\ ~writeFails)
                                 THEN idx + 1 ELSE idx
                       /\ rendered' = IF outcome = "report"
                                      THEN Append(rendered, WouldAdd(path))
                                      ELSE rendered
                       /\ cur' = IF outcome = "add"
                                 THEN [NoCur EXCEPT !.path = path, !.prefix = prefix]
                                 ELSE cur
                       /\ calls' = IF outcome = "add" THEN calls \cup {path} ELSE calls
                       /\ unc' = UncVisit(path, prefix, openFails, readErrAt)
    /\ UNCHANGED <<cfgVars, fsVars, pre, mutated, runNo, goVars, callVars>>

\* filepath.Walk has visited everything: Process returns nil.
ProcessEnd ==
    /\ pc = "walk"
    /\ idx > Len(WalkOrder)
    /\ pc' = "done"
    /\ err' = NoErr
    /\ UNCHANGED <<cfgVars, cache, fsVars, idx, cur, rendered, pre, mutated, opened,
                   calls, checked, faulty, runNo, unc, goVars, callVars>>

\* Process() is run again on the resulting tree.
ProcessAgain ==
    /\ pc = "done"
    /\ err = NoErr
    /\ runNo < MaxRuns
    /\ runNo' = runNo + 1
    /\ pc' = "start"
    /\ idx' = 1
    /\ cur' = NoCur
    /\ rendered' = <<>>
    /\ pre' = files
    /\ mutated' = {}
    /\ opened' = {}
    /\ calls' = {}
    /\ checked' = {}
    /\ faulty' = FALSE
    /\ unc' = [unc EXCEPT !.decisions = {}, !.mutated = {}, !.adding = FALSE]
    /\ UNCHANGED <<cfgVars, cache, fsVars, err, goVars, callVars>>

(***************************************************************************)
(* addHeader, one step per file system call.                               *)
(***************************************************************************)
TmpFile(id) == CHOOSE t \in tmpFiles : t.id = id

SetTmp(id, content, mode) ==
    {t \in tmpFiles : t.id # id}
        \cup {[id |-> id, dir |-> TmpFile(id).dir, content |-> content, mode |-> mode]}

\* A write that fails has written some of its bytes, not all: none of them,
\* or all but the last.
PartialWrites(bytes) == {<<>>, SubSeq(bytes, 1, Len(bytes) - 1)}

\* A copy that loses the first byte of the original.
CopyIntoSkippingFirst(tmpContent, original) ==
    tmpContent \o (IF original = <<>> THEN <<>> ELSE Tail(original))

\* io.Copy(tmp, f) appends the original file to what the temp file holds.
CopyInto(tmpContent, original) == tmpContent \o original

\* addHeader returns e (the deferred functions have run): Process wraps it.
ReturnAddErr(e) ==
    /\ pc' = "done"
    /\ err' = <<"walk dir", "add header">> \o e

\* header := p.getHeader(prefix); headerBytes; f, err := os.Open(path)
AddHeaderOpen ==
    /\ pc = "addHeader"
    /\ LET g == getHeader(cache, cfgHeader, cur.prefix)
       IN  /\ cache' = g.cache
           /\ opened' = opened \cup {cur.path}
           /\ \/ /\ ReturnAddErr(<<"open error">>)
                 /\ faulty' = TRUE
                 /\ UNCHANGED <<cur, unc>>
              \/ /\ pc' = "createTemp"
                 /\ cur' = [cur EXCEPT !.headerBytes = HeaderBytes(g.header)]
                 /\ unc' = UncOpen(cur.prefix)
                 /\ UNCHANGED <<err, faulty>>
    /\ UNCHANGED <<cfgVars, fsVars, idx, rendered, pre, mutated, calls, checked,
                   runNo, goVars, callVars>>

\* tmp, err := os.CreateTemp(filepath.Dir(path), "*.tmp"); tmpPath := tmp.Name()
AddHeaderCreateTemp ==
    /\ pc = "createTemp"
    /\ \/ /\ ReturnAddErr(<<"create temp error">>)
          /\ faulty' = TRUE
          /\ UNCHANGED <<cur, fsVars>>
       \/ /\ tmpSeq' = tmpSeq + 1
          /\ tmpFiles' = tmpFiles \cup
                {[id |-> tmpSeq + 1, dir |-> Dir(cur.path), content |-> <<>>,
                  mode |-> "0600"]}
          /\ cur' = [cur EXCEPT !.tmpPath = tmpSeq + 1, !.tmp = "file"]
          /\ pc' = "write"
          /\ UNCHANGED <<files, err, faulty>>
    /\ UNCHANGED <<cfgVars, cache, idx, rendered, pre, mutated, opened, calls,
                   checked, runNo, unc, goVars, callVars>>

\* tmp.Write(headerBytes)
AddHeaderWrite ==
    /\ pc = "write"
    /\ \/ /\ tmpFiles' = SetTmp(cur.tmpPath, cur.headerBytes, TmpFile(cur.tmpPath).mode)
          /\ unc' = UncWrite(Len(cur.headerBytes))
          /\ pc' = "copy"
          /\ UNCHANGED <<cur, faulty>>
       \/ \E part \in PartialWrites(cur.headerBytes) :
            /\ tmpFiles' = SetTmp(cur.tmpPath, part, TmpFile(cur.tmpPath).mode)
            /\ unc' = UncWrite(Len(part))
            /\ pc' = "deferred"
            /\ cur' = [cur EXCEPT !.retErr = <<"write error">>]
            /\ faulty' = TRUE
    /\ UNCHANGED <<cfgVars, cache, files, tmpSeq, idx, err, rendered, pre, mutated,
                   opened, calls, checked, runNo, goVars, callVars>>

\* io.Copy(tmp, f)
AddHeaderCopy ==
    /\ pc = "copy"
    /\ LET t == TmpFile(cur.tmpPath)
           original == files[cur.path].content
       IN  \/ /\ tmpFiles' = SetTmp(cur.tmpPath, CopyInto(t.content, original), t.mode)
              /\ unc' = UncCopy(cur.path, Len(original))
              /\ pc' = "chmod"
              /\ UNCHANGED <<cur, faulty>>
           \/ \E part \in PartialWrites(original) :
                /\ tmpFiles' = SetTmp(cur.tmpPath, CopyInto(t.content, part), t.mode)
                /\ unc' = UncCopy(cur.path, Len(part))
                /\ pc' = "deferred"
                /\ cur' = [cur EXCEPT !.retErr = <<"copy error">>]
                /\ faulty' = TRUE
    /\ UNCHANGED <<cfgVars, cache, files, tmpSeq, idx, err, rendered, pre, mutated,
                   opened, calls, checked, runNo, goVars, callVars>>

\* A temp file that keeps the mode os.CreateTemp gave it.
ModeNeverChanged(tmpMode, fileMode, statFails, chmodFails) == tmpMode

\* The mode the temp file has after
\*   if stat, err := f.Stat(); err == nil { tmp.Chmod(stat.Mode()) }
\* Neither a failing Stat nor a failing Chmod stops addHeader.
ModeAfterChmod(tmpMode, fileMode, statFails, chmodFails) ==
    IF statFails \/ chmodFails THEN tmpMode ELSE fileMode

AddHeaderChmod ==
    /\ pc = "chmod"
    /\ \E statFails \in BOOLEAN, chmodFails \in BOOLEAN :
         LET t == TmpFile(cur.tmpPath)
         IN  /\ statFails => ~chmodFails
             /\ tmpFiles' = SetTmp(cur.tmpPath, t.content,
                                   ModeAfterChmod(t.mode, files[cur.path].mode,
                                                  statFails, chmodFails))
             /\ faulty' = (faulty \/ statFails \/ chmodFails)
             /\ cur' = [cur EXCEPT !.chmod = IF statFails \/ chmodFails
                                             THEN "failed" ELSE "done"]
    /\ pc' = "close"
    /\ UNCHANGED <<cfgVars, cache, files, tmpSeq, idx, err, rendered, pre, mutated,
                   opened, calls, checked, runNo, unc, goVars, callVars>>

\* if err := tmp.Close(); err != nil { return err }; tmp = nil
AddHeaderClose ==
    /\ pc = "close"
    /\ \/ /\ pc' = "deferred"
          /\ cur' = [cur EXCEPT !.retErr = <<"close error">>]
          /\ faulty' = TRUE
       \/ /\ pc' = "rename"
          /\ cur' = [cur EXCEPT !.tmp = "nil"]
          /\ UNCHANGED faulty
    /\ UNCHANGED <<cfgVars, cache, fsVars, idx, err, rendered, pre, mutated, opened,
                   calls, checked, runNo, unc, goVars, callVars>>

\* The deferred cleanup: if tmp != nil { tmp.Close(); os.Remove(tmpPath) }
DeferredCleanup(c, tmps) ==
    IF c.tmp # "nil" THEN {t \in tmps : t.id # c.tmpPath} ELSE tmps

\* A replacement that leaves the target one byte short of the temp file.
RenamedShort(fs, path, t) ==
    [fs EXCEPT ![path] = [content |-> SubSeq(t.content, 1, Len(t.content) - 1),
                          mode |-> t.mode]]

\* What os.Rename(tmpPath, path) leaves at path.
Renamed(fs, path, t) ==
    [fs EXCEPT ![path] = [content |-> t.content, mode |-> t.mode]]

\* os.Rename(tmpPath, path): the temp file replaces the target, or the call
\* fails and addHeader returns through the deferred cleanup.
AddHeaderRename ==
    /\ pc = "rename"
    /\ \/ /\ tmpFiles' = DeferredCleanup(cur, tmpFiles)
          /\ ReturnAddErr(<<"rename error">>)
          /\ faulty' = TRUE
          /\ UNCHANGED <<files, mutated, unc>>
       \/ /\ files' = Renamed(files, cur.path, TmpFile(cur.tmpPath))
          /\ unc' = UncRename(cur.path)
          /\ tmpFiles' = {t \in tmpFiles : t.id # cur.tmpPath}
          /\ mutated' = mutated \cup {cur.path}
          /\ pc' = "render"
          /\ UNCHANGED <<err, faulty>>
    /\ UNCHANGED <<cfgVars, cache, tmpSeq, idx, cur, rendered, pre, opened, calls,
                   checked, runNo, goVars, callVars>>

\* p.view.Render("Added header to ..."); return nil.  HumanRenderer.Render
\* panics when its writer fails.
AddHeaderRender ==
    /\ pc = "render"
    /\ rendered' = Append(rendered, Added(cur.path))
    /\ \/ /\ pc' = "panic"
          /\ faulty' = TRUE
          /\ UNCHANGED idx
       \/ /\ pc' = "walk"
          /\ idx' = idx + 1
          /\ UNCHANGED faulty
    /\ UNCHANGED <<cfgVars, cache, fsVars, err, cur, pre, mutated, opened, calls,
                   checked, runNo, unc, goVars, callVars>>

\* A failing write, copy or close returns through the deferred cleanup.
AddHeaderDeferred ==
    /\ pc = "deferred"
    /\ tmpFiles' = DeferredCleanup(cur, tmpFiles)
    /\ ReturnAddErr(cur.retErr)
    /\ UNCHANGED <<cfgVars, cache, files, tmpSeq, idx, cur, rendered, pre, mutated,
                   opened, calls, checked, faulty, runNo, unc, goVars, callVars>>

AddHeader ==
    \/ AddHeaderOpen
    \/ AddHeaderCreateTemp
    \/ AddHeaderWrite
    \/ AddHeaderCopy
    \/ AddHeaderChmod
    \/ AddHeaderClose
    \/ AddHeaderRename
    \/ AddHeaderRender
    \/ AddHeaderDeferred

Next ==
    \/ ProcessBegin
    \/ Visit
    \/ AddHeader
    \/ ProcessEnd
    \/ ProcessAgain

Spec == Init /\ [][Next]_vars

(***************************************************************************)
(* Single calls of isExcluded and checkHeader: the arguments are drawn in   *)
(* the initial state, the call is made once.                               *)
(***************************************************************************)
RunAtRest ==
    /\ cache = EmptyCache
    /\ files = [q \in {} |-> <<>>]
    /\ tmpFiles = {}
    /\ tmpSeq = 0
    /\ pc = "idle"
    /\ idx = 1
    /\ err = NoErr
    /\ cur = NoCur
    /\ rendered = <<>>
    /\ pre = [q \in {} |-> <<>>]
    /\ mutated = {}
    /\ opened = {}
    /\ calls = {}
    /\ checked = {}
    /\ faulty = FALSE
    /\ runNo = 1
    /\ unc = UncStart(files)

GoAtRest ==
    /\ gor = NoGor
    /\ mu = NoMu
    /\ builds = NoBuilds

Vendor == <<"v", "e", "n", "d", "o", "r">>
VendorGlob == Vendor \o <<"/", "*", "*">>
VendorDir == Vendor \o <<"/">>
VendorLibFileGo == <<"v", "e", "n", "d", "o", "r", "/", "l", "i", "b", "/", "f", "i", "l", "e", ".", "g", "o">>
SrcVendorUtilsGo == <<"s", "r", "c", "/", "v", "e", "n", "d", "o", "r", "_", "u", "t", "i", "l", "s", ".", "g", "o">>

\* vendor/ followed by up to MaxDepth directories and a file name.
RECURSIVE DirChains(_)
DirChains(n) ==
    IF n = 0 THEN {<<>>}
    ELSE DirChains(n - 1) \cup
         {d \o <<"/">> \o c : d \in {<<"l", "i", "b">>, <<"a">>},
                             c \in DirChains(n - 1)}

FileNames == {<<"f", "i", "l", "e", ".", "g", "o">>, <<"x">>}

UnderVendor ==
    {VendorDir \o c \o f :
        c \in DirChains(MaxDepth), f \in FileNames}

PathInputs ==
    UnderVendor \cup
    { SrcVendorUtilsGo, <<"v", "e", "n", "d", "o", "r", "_", "u", "t", "i", "l", "s", ".", "g", "o">>, <<"s", "r", "c", "/", "v", "e", "n", "d", "o", "r", "/", "f", "i", "l", "e", ".", "g", "o">>, <<"m", "a", "i", "n", ".", "g", "o">>, Vendor, <<"d", "o", "c", "s", "/", "a", ".", "g", "o">>,
      <<"[", "/", "x">> }

PatternInputs ==
    { VendorGlob, VendorDir, Vendor, <<"*", ".", "g", "o">>, <<"d", "o", "c", "s", "/", "*", "*">>, <<"[">>, <<"s", "r", "c", "/", "*">>,
      <<"s", "r", "c", "/">>, <<"*", "/">>, <<"[", "/">> }

ExcludeInputs == SeqsUpTo(PatternInputs, MaxPatterns)

InitExcl ==
    /\ cfgHeader = <<>>
    /\ exclude = <<>>
    /\ dryRun = FALSE
    /\ RunAtRest
    /\ GoAtRest
    /\ call \in {[op |-> "isExcluded", exclude |-> e, path |-> pth] :
                    e \in ExcludeInputs, pth \in PathInputs}
    /\ ret = NoCall

CallIsExcluded ==
    /\ call.op = "isExcluded"
    /\ ret = NoCall
    /\ ret' = [op |-> "isExcluded", excluded |-> isExcluded(call.exclude, call.path)]
    /\ UNCHANGED <<cfgVars, cache, fsVars, runVars, goVars, call>>

NextExcl == CallIsExcluded

SpecExcl == InitExcl /\ [][NextExcl]_vars

\* The text a header stands for, its lines ended by term.
RECURSIVE LinesText(_, _)
LinesText(lines, term) ==
    IF Len(lines) = 0 THEN <<>>
    ELSE lines[1] \o term \o LinesText(Tail(lines), term)

TextPrefixes(s) == {SubSeq(s, 1, k) : k \in 0..Len(s)}

Tails == SeqsUpTo({"a", LF}, MaxTail)

\* Files that carry the header (with "\n" or "\r\n" line ends), carry a part
\* of it, or deviate from it somewhere.
CheckContents(tpl) ==
    LET H == buildHeader(tpl, Slashes)
    IN  UNION { {pfx \o t : pfx \in TextPrefixes(LinesText(H, term) \o <<LF, "x">>),
                           t \in Tails}
                : term \in {<<LF>>, <<CR, LF>>} }

InitCheck ==
    /\ cfgHeader = <<>>
    /\ exclude = <<>>
    /\ dryRun = FALSE
    /\ RunAtRest
    /\ GoAtRest
    /\ call \in UNION { {[op |-> "checkHeader", tpl |-> tpl, content |-> c,
                          openFails |-> o, readErrAt |-> r] :
                            c \in CheckContents(tpl), o \in BOOLEAN,
                            r \in {NoReadErr, 0, 1, 2, 5}}
                        : tpl \in Templates }
    /\ call.openFails => call.readErrAt = NoReadErr
    /\ ret = NoCall

\* checkHeader(path, "//") on a Processor whose cache is still empty.
CallCheckHeader ==
    /\ call.op = "checkHeader"
    /\ ret = NoCall
    /\ LET r == checkHeader(call.tpl, getHeader(EmptyCache, call.tpl, Slashes).header,
                            call.content, call.openFails, call.readErrAt)
       IN  ret' = [op |-> "checkHeader", has |-> r.has, err |-> r.err, opened |-> r.opened]
    /\ UNCHANGED <<cfgVars, cache, fsVars, runVars, goVars, call>>

NextCheck == CallCheckHeader

SpecCheck == InitCheck /\ [][NextCheck]_vars

(***************************************************************************)
(* Single calls of buildHeader on Processors with any template.            *)
(***************************************************************************)
BuildTemplates == SeqsUpTo({"a", LF, CR}, MaxBuildLen)

BuildPrefixes == {Slashes, <<"#">>, <<>>}

InitBuild ==
    /\ cfgHeader \in BuildTemplates
    /\ exclude = <<>>
    /\ dryRun \in BOOLEAN
    /\ RunAtRest
    /\ GoAtRest
    /\ call \in {[op |-> "buildHeader", prefix |-> q] : q \in BuildPrefixes}
    /\ ret = NoCall

CallBuildHeader ==
    /\ call.op = "buildHeader"
    /\ ret = NoCall
    /\ ret' = [op |-> "buildHeader", header |-> buildHeader(cfgHeader, call.prefix)]
    /\ UNCHANGED <<cfgVars, cache, fsVars, runVars, goVars, call>>

NextBuild == CallBuildHeader

SpecBuild == InitBuild /\ [][NextBuild]_vars

(***************************************************************************)
(* getHeader and warmCache called from NumCallers goroutines on one         *)
(* Processor.  cacheMu is a sync.RWMutex: a goroutine that called Lock      *)
(* keeps later RLock calls waiting until it has held and released the lock. *)
(***************************************************************************)
Callers == 1..NumCallers

CallPrefixes == {Slashes, <<"#">>}

CacheTemplates == {t \in Templates : Len(t) = 1}

GorCalls ==
    {[op |-> "getHeader", prefix |-> q] : q \in CallPrefixes}
        \cup {[op |-> "warmCache", prefix |-> <<>>]}

StartGor(c) ==
    [op |-> c.op, prefix |-> c.prefix,
     pc |-> IF c.op = "getHeader" THEN "rlock" ELSE "lock",
     ok |-> FALSE, cached |-> <<>>, header |-> <<>>, ret |-> <<>>,
     returned |-> FALSE]

InitCache ==
    /\ cfgHeader \in CacheTemplates
    /\ exclude = <<>>
    /\ dryRun = FALSE
    /\ RunAtRest
    /\ gor \in [Callers -> {StartGor(c) : c \in GorCalls}]
    /\ mu = NoMu
    /\ builds = [q \in CallPrefixes \cup Prefixes |-> 0]
    /\ call = NoCall
    /\ ret = NoCall

CacheFrame == UNCHANGED <<cfgVars, fsVars, runVars, callVars>>

\* p.cacheMu.RLock()
GetHeaderRLock(g) ==
    /\ gor[g].pc = "rlock"
    /\ mu.writer = 0
    /\ mu' = [mu EXCEPT !.readers = @ \cup {g}]
    /\ gor' = [gor EXCEPT ![g].pc = "read"]
    /\ UNCHANGED <<cache, builds>>
    /\ CacheFrame

\* cached, ok := p.cache[prefix]
GetHeaderRead(g) ==
    /\ gor[g].pc = "read"
    /\ gor' = [gor EXCEPT ![g].pc = "runlock",
                          ![g].ok = gor[g].prefix \in DOMAIN cache,
                          ![g].cached = IF gor[g].prefix \in DOMAIN cache
                                        THEN cache[gor[g].prefix] ELSE <<>>]
    /\ UNCHANGED <<cache, mu, builds>>
    /\ CacheFrame

\* A getHeader that keeps its read lock when it goes on to the write lock.
GetHeaderRUnlockKeeping(g) ==
    /\ gor[g].pc = "runlock"
    /\ mu' = IF gor[g].ok THEN [mu EXCEPT !.readers = @ \ {g}] ELSE mu
    /\ gor' = IF gor[g].ok
              THEN [gor EXCEPT ![g].pc = "done", ![g].ret = gor[g].cached,
                               ![g].returned = TRUE]
              ELSE [gor EXCEPT ![g].pc = "lock"]
    /\ UNCHANGED <<cache, builds>>
    /\ CacheFrame

\* p.cacheMu.RUnlock(); if ok { return cached }
GetHeaderRUnlock(g) ==
    /\ gor[g].pc = "runlock"
    /\ mu' = [mu EXCEPT !.readers = @ \ {g}]
    /\ gor' = IF gor[g].ok
              THEN [gor EXCEPT ![g].pc = "done", ![g].ret = gor[g].cached,
                               ![g].returned = TRUE]
              ELSE [gor EXCEPT ![g].pc = "lock"]
    /\ UNCHANGED <<cache, builds>>
    /\ CacheFrame

\* p.cacheMu.Lock() is called: from here on no new reader gets in.
CacheLock(g) ==
    /\ gor[g].pc = "lock"
    /\ mu.writer = 0
    /\ mu' = [mu EXCEPT !.writer = g]
    /\ gor' = [gor EXCEPT ![g].pc = "lockwait"]
    /\ UNCHANGED <<cache, builds>>
    /\ CacheFrame

\* p.cacheMu.Lock() returns once the readers that were in have left.
CacheLocked(g) ==
    /\ gor[g].pc = "lockwait"
    /\ mu.writer = g
    /\ mu.readers = {}
    /\ mu' = [mu EXCEPT !.held = TRUE]
    /\ gor' = [gor EXCEPT ![g].pc = IF gor[g].op = "getHeader" THEN "recheck"
                                    ELSE "warm"]
    /\ UNCHANGED <<cache, builds>>
    /\ CacheFrame

\* A second look that never finds the entry.
CachedAgainNever(c, prefix) == FALSE

\* if cached, ok := p.cache[prefix]; ok
CachedAgain(c, prefix) == prefix \in DOMAIN c

GetHeaderRecheck(g) ==
    /\ gor[g].pc = "recheck"
    /\ gor' = IF CachedAgain(cache, gor[g].prefix)
              THEN [gor EXCEPT ![g].pc = "unlock", ![g].ret = cache[gor[g].prefix]]
              ELSE [gor EXCEPT ![g].pc = "build"]
    /\ UNCHANGED <<cache, mu, builds>>
    /\ CacheFrame

\* header := p.buildHeader(prefix)
GetHeaderBuild(g) ==
    /\ gor[g].pc = "build"
    /\ gor' = [gor EXCEPT ![g].pc = "store",
                          ![g].header = buildHeader(cfgHeader, gor[g].prefix)]
    /\ builds' = [builds EXCEPT ![gor[g].prefix] = @ + 1]
    /\ UNCHANGED <<cache, mu>>
    /\ CacheFrame

\* p.cache[prefix] = header; return header
GetHeaderStore(g) ==
    /\ gor[g].pc = "store"
    /\ cache' = CachePut(cache, gor[g].prefix, gor[g].header)
    /\ gor' = [gor EXCEPT ![g].pc = "unlock", ![g].ret = gor[g].header]
    /\ UNCHANGED <<mu, builds>>
    /\ CacheFrame

\* warmCache's loop over commentPrefixes, under the write lock.
WarmCacheFill(g) ==
    /\ gor[g].pc = "warm"
    /\ cache' = warmCache(cache, cfgHeader)
    /\ builds' = [q \in DOMAIN builds |->
                    IF q \in Prefixes \ DOMAIN cache THEN builds[q] + 1 ELSE builds[q]]
    /\ gor' = [gor EXCEPT ![g].pc = "unlock"]
    /\ UNCHANGED mu
    /\ CacheFrame

\* defer p.cacheMu.Unlock()
CacheUnlock(g) ==
    /\ gor[g].pc = "unlock"
    /\ mu' = [mu EXCEPT !.writer = 0, !.held = FALSE]
    /\ gor' = [gor EXCEPT ![g].pc = "done", ![g].returned = TRUE]
    /\ UNCHANGED <<cache, builds>>
    /\ CacheFrame

NextCache ==
    \E g \in Callers :
        \/ GetHeaderRLock(g)
        \/ GetHeaderRead(g)
        \/ GetHeaderRUnlock(g)
        \/ CacheLock(g)
        \/ CacheLocked(g)
        \/ GetHeaderRecheck(g)
        \/ GetHeaderBuild(g)
        \/ GetHeaderStore(g)
        \/ WarmCacheFill(g)
        \/ CacheUnlock(g)

SpecCache == InitCache /\ [][NextCache]_vars

\* The scheduler does not stop while some goroutine can take a step.
SpecCacheFair == InitCache /\ [][NextCache]_vars /\ WF_vars(NextCache)

(***************************************************************************)
(* What the claims speak of.                                               *)
(***************************************************************************)
\* A file the walk does not skip: a registered extension, not excluded.
Eligible(path) ==
    /\ path \in FilePaths
    /\ Ext(path) \in DOMAIN commentPrefixes
    /\ ~isExcluded(exclude, path)

ExpectedHeader(path) == buildHeader(cfgHeader, commentPrefixes[Ext(path)])

\* Whether the detector, reading all of content without failure, finds the header.
HasHeader(content, path) ==
    checkHeader(cfgHeader, ExpectedHeader(path), content, FALSE, NoReadErr).has

\* The eligible files that lacked the header when this run began.
Headerless == {p \in FilePaths : Eligible(p) /\ ~HasHeader(pre[p].content, p)}

Reported == {rendered[i].path : i \in 1..Len(rendered)}

\* The files the walk has passed.
Visited == {WalkOrder[i].path : i \in 1..(idx - 1)}

\* The files for which checkHeader returned (false, nil) during this run.
FoundLacking == {c.path : c \in {d \in checked : ~d.has /\ d.err = NoErr}}

InAddHeaderBeforeRename ==
    pc \in {"addHeader", "createTemp", "write", "copy", "chmod", "close", "rename",
            "deferred"}

AddHeaderFailed == pc = "done" /\ Len(err) >= 2 /\ err[2] = "add header"

\* C1 (as stated): after a Process() run (dry-run off) that returned nil, a
\* second run, in which no file system call fails, mutates no file and emits
\* no notification.
C1_Idempotence ==
    (~dryRun /\ runNo >= 2 /\ ~faulty) => mutated = {} /\ rendered = <<>>

\* C2 (as stated): a mutated file holds the header lines joined with newline,
\* one newline, then the original bytes.
C2_AsStated ==
    \A p \in mutated :
        files[p].content = Join(ExpectedHeader(p)) \o <<LF>> \o pre[p].content

\* C2 (amended): a mutated file holds the header lines joined with newline,
\* two newlines (the end of the last header line and a blank line), then the
\* original bytes, once and in order.
C2_ContentPreserved ==
    \A p \in mutated :
        files[p].content = Join(ExpectedHeader(p)) \o <<LF, LF>> \o pre[p].content

C2_Witness ==
    \E p \in mutated : Len(pre[p].content) > 0 /\ Len(ExpectedHeader(p)) > 0

\* C3: until os.Rename succeeds, and on every error exit of addHeader, the
\* target holds its original content; the only step that changes a file is the
\* successful rename, which puts the complete new content in place.
C3_TargetIntact ==
    /\ (InAddHeaderBeforeRename \/ AddHeaderFailed) => files[cur.path] = pre[cur.path]
    /\ \A p \in FilePaths :
          \/ files[p].content = pre[p].content
          \/ /\ p \in mutated
             /\ files[p].content = HeaderBytes(ExpectedHeader(p)) \o pre[p].content

C3_OnlyRenameWrites ==
    files' # files =>
        /\ pc = "rename"
        /\ pc' = "render"
        /\ \A p \in FilePaths : p # cur.path => files'[p] = files[p]

C3_AtomicReplacement == []C3_TargetIntact /\ [][C3_OnlyRenameWrites]_vars

\* The copy failed half way: the temp file holds a partial write.
C3_Witness ==
    /\ pc = "deferred"
    /\ cur.retErr = <<"copy error">>
    /\ Len(TmpFile(cur.tmpPath).content) > Len(cur.headerBytes)
    /\ Len(TmpFile(cur.tmpPath).content) < Len(cur.headerBytes) + Len(files[cur.path].content)

\* C4 (as stated): when addHeader has returned an error, no temporary file it
\* created remains.
C4_TempRemoved == AddHeaderFailed => tmpFiles = {}

\* C7: a dry run changes no file, creates no temporary file and never calls
\* addHeader; a dry run in which no call failed and which returned nil has
\* reported exactly the eligible files that lack the header, once each.
C7_DryRun ==
    dryRun =>
        /\ files = pre
        /\ tmpFiles = {}
        /\ tmpSeq = 0
        /\ calls = {}
        /\ mutated = {}
        /\ (pc = "done" /\ err = NoErr /\ ~faulty) =>
              /\ Len(rendered) = Cardinality(Headerless)
              /\ Reported = Headerless
              /\ \A i \in 1..Len(rendered) : rendered[i] = WouldAdd(rendered[i].path)

C7_Witness ==
    /\ dryRun
    /\ pc = "done"
    /\ err = NoErr
    /\ ~faulty
    /\ Len(rendered) = 2
    /\ \E p \in FilePaths : ~Eligible(p)

\* C8: with an empty template every checkHeader call returns (true, nil)
\* without opening the file, and the run opens, mutates and reports nothing.
C8_EmptyTemplate ==
    cfgHeader = <<>> =>
        /\ \A c \in checked : c.has /\ c.err = NoErr /\ ~c.opened
        /\ opened = {}
        /\ calls = {}
        /\ mutated = {}
        /\ rendered = <<>>
        /\ files = pre
        /\ tmpSeq = 0

C8_Witness ==
    /\ cfgHeader = <<>>
    /\ pc = "done"
    /\ err = NoErr
    /\ {c.path : c \in checked} = {PathA, PathVC}

\* C10: the sink receives one notification for each file mutated (or, in a
\* dry run, found lacking the header), and none for a directory, an
\* unregistered extension, an excluded path or a file found to have the header.
C10_Notifications ==
    /\ \A i, j \in 1..Len(rendered) : rendered[i].path = rendered[j].path => i = j
    /\ \A i \in 1..Len(rendered) :
          /\ Eligible(rendered[i].path)
          /\ rendered[i].path \in FoundLacking
          /\ rendered[i] = IF dryRun THEN WouldAdd(rendered[i].path)
                           ELSE Added(rendered[i].path)
    /\ ~faulty => Reported \subseteq Headerless
    /\ dryRun => Reported = FoundLacking
    /\ ~dryRun => Reported = (IF pc = "render" THEN mutated \ {cur.path} ELSE mutated)

C10_Witness ==
    /\ ~dryRun
    /\ pc = "done"
    /\ err = NoErr
    /\ Len(rendered) = 1
    /\ \E p \in FilePaths : Eligible(p) /\ p \notin Headerless /\ p \notin Reported
    /\ \E p \in FilePaths : ~Eligible(p)


(***************************************************************************)
(* Claims about isExcluded (SpecExcl) and checkHeader (SpecCheck).         *)
(***************************************************************************)
ExcludedCall == ret.op = "isExcluded"

\* C5: with the exclusion pattern "vendor/**", isExcluded returns true for
\* "vendor/lib/file.go" and for every path nested under vendor/ at any
\* depth, and false for "src/vendor_utils.go".
C5_Exclusion ==
    (ExcludedCall /\ call.exclude = <<VendorGlob>>) =>
        /\ call.path = VendorLibFileGo => ret.excluded
        /\ call.path \in UnderVendor => ret.excluded
        /\ call.path = SrcVendorUtilsGo => ~ret.excluded

\* The lines of a text: its pieces between "\n", without the empty piece
\* after a final "\n", each without one trailing "\r".
TextLines(content) ==
    LET parts == Split(content)
        n == IF parts[Len(parts)] = <<>> THEN Len(parts) - 1 ELSE Len(parts)
    IN  [i \in 1..n |-> dropCR(parts[i])]

CheckedHeader == buildHeader(call.tpl, Slashes)

CheckedCall ==
    /\ ret.op = "checkHeader"
    /\ ~call.openFails
    /\ call.readErrAt = NoReadErr
    /\ call.tpl # <<>>
    /\ Len(CheckedHeader) > 0

LeadingLinesEqual(lines, header, n) ==
    /\ Len(lines) >= n
    /\ \A i \in 1..n : lines[i] = header[i]

\* C6: for a built header of N lines and a file that is read without error,
\* checkHeader returns (false, nil) when the file's first N-1 lines equal the
\* header's and its Nth line differs, and it returns true only if all N
\* leading lines of the file equal the header's lines (and it does return
\* true then).
C6_PartialMatch ==
    CheckedCall =>
        LET H == CheckedHeader
            N == Len(H)
            L == TextLines(call.content)
        IN  /\ (LeadingLinesEqual(L, H, N - 1) /\ Len(L) >= N /\ L[N] # H[N])
                    => (~ret.has /\ ret.err = NoErr)
            /\ ret.has => LeadingLinesEqual(L, H, N)
            /\ LeadingLinesEqual(L, H, N) => (ret.has /\ ret.err = NoErr)

\* A two-line header whose first line the file has and whose second line it
\* has not.
C6_Witness ==
    /\ CheckedCall
    /\ Len(CheckedHeader) = 2
    /\ LET L == TextLines(call.content)
       IN  /\ Len(L) >= 2
           /\ L[1] = CheckedHeader[1]
           /\ L[2] # CheckedHeader[2]
    /\ ~ret.has
    /\ ret.err = NoErr

(***************************************************************************)
(* Claims about the header cache (SpecCache).                              *)
(***************************************************************************)
Returned(g) == gor[g].op = "getHeader" /\ gor[g].returned

\* C9: for any number of goroutines calling getHeader concurrently with the
\* same prefix that has no cache entry yet, buildHeader is invoked exactly
\* once for that prefix and every caller receives the same header, line for
\* line.
C9_BuiltOnce ==
    /\ \A q \in DOMAIN builds : builds[q] <= 1
    /\ \A g \in DOMAIN gor :
         Returned(g) =>
            /\ builds[gor[g].prefix] = 1
            /\ gor[g].ret = buildHeader(cfgHeader, gor[g].prefix)
    /\ \A g, h \in DOMAIN gor :
         (Returned(g) /\ Returned(h) /\ gor[g].prefix = gor[h].prefix)
            => gor[g].ret = gor[h].ret

\* Two callers with the same prefix both missed the entry on the read path,
\* and both have returned.
C9_Witness ==
    \E g, h \in DOMAIN gor :
        /\ g # h
        /\ Returned(g) /\ Returned(h)
        /\ gor[g].prefix = gor[h].prefix
        /\ ~gor[g].ok /\ ~gor[h].ok
        /\ Len(gor[g].ret) > 0

(***************************************************************************)
(* Claims about errors during the walk (Spec).                             *)
(***************************************************************************)
\* The files that come after the entry the walk stands at.
LaterFiles == {WalkOrder[i].path : i \in (idx + 1)..Len(WalkOrder)}

Touched == opened \cup Reported \cup mutated \cup calls \cup {c.path : c \in checked}

ProcessFailed == pc = "done" /\ err # NoErr

\* How the walk dealt with a file it passed without error.
Settled(p) ==
    \/ ~Eligible(p)
    \/ \E c \in checked : c.path = p /\ c.has /\ c.err = NoErr
    \/ dryRun /\ p \in Reported
    \/ ~dryRun /\ p \in mutated

C11_Stops ==
    /\ \A c \in checked :
         c.err # NoErr =>
            /\ ProcessFailed
            /\ err = <<"walk dir", "check header">> \o c.err
            /\ c.path = WalkOrder[idx].path
    /\ (cur.retErr # NoErr /\ pc # "deferred") => (ProcessFailed /\ AddHeaderFailed)
    /\ ProcessFailed => LaterFiles \cap Touched = {}
    /\ (pc = "done" /\ err = NoErr) => \A p \in FilePaths : Settled(p)

\* C11: once checkHeader or addHeader has returned an error for a file,
\* Process() has returned a non-nil error, no file later in walk order has
\* been opened, reported or mutated, and nothing happens afterwards;
\* Process() has returned nil only if every file was skipped, found to have
\* the header, reported (dry-run) or mutated.
C11_FailFast == []C11_Stops /\ [][err = NoErr]_vars

\* The check of a.go failed while v/c.go, later in the walk, lacks the
\* header and is eligible: it has not been touched.
C11_Witness ==
    /\ ProcessFailed
    /\ err[2] = "check header"
    /\ WalkOrder[idx].path = PathA
    /\ PathVC \in Headerless
    /\ PathVC \notin Touched

\* addHeader has replaced cur.path in this run.
Replaced == cur.path \in mutated

\* C12 (as stated): every file addHeader succeeded on carries the mode it
\* had before the call.
C12_AsStated == \A p \in mutated : files[p].mode = pre[p].mode

\* C12 (amended): a file addHeader succeeded on carries the mode it had
\* before the call when f.Stat() and tmp.Chmod() both succeeded; when either
\* failed addHeader succeeds all the same and the file carries the mode
\* os.CreateTemp gave the temp file.
C12_ModePreserved ==
    /\ Replaced =>
         /\ cur.chmod = "done" => files[cur.path].mode = pre[cur.path].mode
         /\ cur.chmod = "failed" => files[cur.path].mode = "0600"
         /\ cur.chmod # "none"
    /\ \A p \in mutated : files[p].mode \in {pre[p].mode, "0600"}
    /\ ~faulty => \A p \in mutated : files[p].mode = pre[p].mode

\* Two files with different modes have been replaced, each keeping its own.
C12_Witness ==
    /\ mutated = {PathA, PathVC}
    /\ pc = "done"
    /\ ~faulty
    /\ files[PathA].mode = "0644"
    /\ files[PathVC].mode = "0755"

(***************************************************************************)
(* More claims about the header cache (SpecCache).                         *)
(***************************************************************************)
C13_EntriesKept ==
    \A q \in DOMAIN cache : q \in DOMAIN cache' /\ cache'[q] = cache[q]

C13_ReturnsEntry ==
    \A g \in DOMAIN gor :
        Returned(g) => /\ gor[g].prefix \in DOMAIN cache
                       /\ gor[g].ret = cache[gor[g].prefix]

\* C13: under any interleaving of warmCache and getHeader calls no step
\* removes a cache entry or replaces it by a different value, and every
\* getHeader call that has returned holds the value the cache has for its
\* prefix.
C13_WriteOnce == [][C13_EntriesKept]_vars /\ []C13_ReturnsEntry

\* A getHeader call found on its read path the entry that a warmCache call
\* had stored, while another prefix was stored as well.
C13_Witness ==
    \E g, h \in DOMAIN gor :
        /\ Returned(g) /\ gor[g].ok
        /\ gor[h].op = "warmCache" /\ gor[h].returned
        /\ DOMAIN cache = CallPrefixes

(***************************************************************************)
(* Claims about buildHeader (SpecBuild).                                   *)
(***************************************************************************)
BuiltCall == ret.op = "buildHeader"

\* The template's lines: the pieces that, joined by "\n", give the template
\* back, none of them holding a "\n".
IsSplitOf(lines, tpl) ==
    /\ Len(lines) >= 1
    /\ Join(lines) = tpl
    /\ \A i \in 1..Len(lines) : \A j \in 1..Len(lines[i]) : lines[i][j] # LF

\* C14: buildHeader returns, for the template split on newline, the bare
\* prefix for an empty line and prefix + " " + line otherwise, in order,
\* without the trailing elements equal to the bare prefix; a non-empty
\* result does not end with the bare prefix, blank lines before the last
\* kept line stay as bare-prefix lines, and the result is fixed by the
\* template and the prefix alone.
C14_BuildHeader ==
    BuiltCall =>
        LET L == Split(cfgHeader)
            H == ret.header
            k == Len(H)
            q == call.prefix
        IN  /\ IsSplitOf(L, cfgHeader)
            /\ k <= Len(L)
            /\ \A i \in 1..k :
                 H[i] = IF L[i] = <<>> THEN q ELSE q \o <<" ">> \o L[i]
            /\ \A i \in (k + 1)..Len(L) : L[i] = <<>>
            /\ k > 0 => (H[k] # q /\ L[k] # <<>>)

\* A header of three lines whose middle line is the bare prefix.
C14_Witness ==
    /\ BuiltCall
    /\ call.prefix = Slashes
    /\ Len(ret.header) = 3
    /\ ret.header[2] = Slashes
    /\ ret.header[3] # Slashes

(***************************************************************************)
(* Claims about checkHeader on short files and failing reads (SpecCheck).  *)
(***************************************************************************)
\* checkHeader opened the file and compared lines; the read may have failed.
ScannedCall ==
    /\ ret.op = "checkHeader"
    /\ ~call.openFails
    /\ call.tpl # <<>>
    /\ Len(CheckedHeader) > 0

\* The file has fewer lines than the header, and those it has are the
\* header's.
ShortMatching ==
    LET L == TextLines(call.content)
    IN  /\ Len(L) < Len(CheckedHeader)
        /\ \A i \in 1..Len(L) : L[i] = CheckedHeader[i]

ReadFailed == ScannerErr(call.content, call.readErrAt) # NoErr

\* C15: for a file with fewer lines than the built header whose lines match
\* the header's, checkHeader never returns true; it returns (false, nil)
\* when no read failed and false with the scanner's error when a read
\* failed.
C15_ShortFile ==
    (ScannedCall /\ ShortMatching) =>
        /\ ~ret.has
        /\ ~ReadFailed => ret.err = NoErr
        /\ ReadFailed => ret.err = ScannerErr(call.content, call.readErrAt)

(***************************************************************************)
(* More claims about isExcluded (SpecExcl).                                *)
(***************************************************************************)
\* The malformed patterns among the inputs: an unclosed character class.
MalformedPatterns == {<<"[">>, <<"[", "/">>}

WellFormed(pattern) == pattern \notin MalformedPatterns

EndsInSeparator(pattern) == Len(pattern) > 0 /\ pattern[Len(pattern)] = "/"

\* path, with a separator appended, starts with the directory pattern.
UnderDir(path, pattern) ==
    /\ Len(path) + 1 >= Len(pattern)
    /\ SubSeq(path \o <<"/">>, 1, Len(pattern)) = pattern

VendorUtilsGo == SubSeq(SrcVendorUtilsGo, 5, Len(SrcVendorUtilsGo))

\* C16 (as stated): with a single pattern that ends in a separator,
\* isExcluded returns true exactly for the paths that, with a separator
\* appended, start with the pattern.
C16_AsStated ==
    (ExcludedCall /\ Len(call.exclude) = 1 /\ EndsInSeparator(call.exclude[1]))
        => (ret.excluded <=> UnderDir(call.path, call.exclude[1]))

\* C16 (amended): with a single well-formed pattern that ends in a
\* separator, isExcluded returns true exactly for the paths that, with a
\* separator appended, start with the pattern; such a pattern excludes those
\* paths from any list it is in; "vendor/" excludes every path under vendor/
\* and not vendor_utils.go.
C16_DirPrefix ==
    ExcludedCall =>
        /\ (Len(call.exclude) = 1 /\ EndsInSeparator(call.exclude[1])
                /\ WellFormed(call.exclude[1]))
              => (ret.excluded <=> UnderDir(call.path, call.exclude[1]))
        /\ \A k \in 1..Len(call.exclude) :
              (EndsInSeparator(call.exclude[k]) /\ WellFormed(call.exclude[k])
                    /\ UnderDir(call.path, call.exclude[k]))
                 => ret.excluded
        /\ call.exclude = <<VendorDir>> =>
              /\ call.path \in UnderVendor => ret.excluded
              /\ call.path \in {VendorUtilsGo, SrcVendorUtilsGo} => ~ret.excluded

\* "vendor/" excludes vendor/lib/file.go, two levels down.
C16_Witness ==
    /\ ExcludedCall
    /\ call.exclude = <<VendorDir>>
    /\ call.path = VendorLibFileGo
    /\ ret.excluded

\* C17: filepath.Match reports an error for a malformed pattern and none
\* for the others; isExcluded returns what it returns for the list without
\* its malformed patterns, and a list of malformed patterns alone excludes
\* nothing.
C17_Malformed ==
    ExcludedCall =>
        /\ \A k \in 1..Len(call.exclude) :
              Match(call.exclude[k], ToSlash(call.path)).err
                 <=> ~WellFormed(call.exclude[k])
        /\ ret.excluded = isExcluded(SelectSeq(call.exclude, WellFormed), call.path)
        /\ (\A k \in 1..Len(call.exclude) : ~WellFormed(call.exclude[k]))
              => ~ret.excluded

\* A malformed pattern comes first in the list and the pattern after it
\* still excludes the path.
C17_Witness ==
    /\ ExcludedCall
    /\ call.exclude = <<<<"[", "/">>, VendorDir>>
    /\ call.path = VendorLibFileGo
    /\ ret.excluded

(***************************************************************************)
(* Claims about the reporting sink (Spec).                                 *)
(***************************************************************************)
\* The writer failed while addHeader rendered its notification for cur.path:
\* HumanRenderer.Render panicked.
AddedRenderPanicked ==
    /\ pc = "panic"
    /\ ~dryRun
    /\ Len(rendered) > 0
    /\ rendered[Len(rendered)] = Added(cur.path)

\* C18: a writer error during addHeader's "Added header" notification does
\* not end the run: addHeader returns nil and Process() goes on with the
\* next file, so the run is never left in a panic by that notification.
C18_NonFatal == ~AddedRenderPanicked

(***************************************************************************)
(* Claims about progress of the cache calls (SpecCacheFair).               *)
(***************************************************************************)
AllReturned == \A g \in DOMAIN gor : gor[g].returned

\* C19: with goroutines calling getHeader (any prefixes) and warmCache
\* concurrently, and a scheduler that lets a goroutine step whenever one
\* can, every call eventually returns, whatever the interleaving.
C19_Liveness == <>[]AllReturned

\* One goroutine is inside its read lock, a second has called Lock and waits
\* for it to leave, a third waits to get its read lock.
C19_Witness ==
    \E g, h, k \in DOMAIN gor :
        /\ g \in mu.readers
        /\ mu.writer = h /\ ~mu.held /\ gor[h].pc = "lockwait"
        /\ gor[k].pc = "rlock"

(***************************************************************************)
(* C20  The cache is invisible.  In every reachable state each cache entry *)
(* and each getHeader(prefix) equals buildHeader(prefix); and the cached   *)
(* Processor and the uncached Processor, run on the same tree with the     *)
(* same template, exclusion list, dry-run setting and file system          *)
(* outcomes, have made the same has-header decision for every file, have   *)
(* mutated the same set of files, and hold the same file contents.         *)
(***************************************************************************)
C20_Equivalent ==
    /\ \A q \in DOMAIN cache : cache[q] = buildHeader(cfgHeader, q)
    /\ \A q \in Prefixes : getHeader(cache, cfgHeader, q).header = buildHeader(cfgHeader, q)
    /\ unc.decisions = {[path |-> c.path, has |-> c.has, err |-> c.err] : c \in checked}
    /\ unc.mutated = mutated
    /\ \A p \in FilePaths : unc.files[p] = files[p].content
    /\ pc \in {"addHeader", "createTemp", "write", "copy", "chmod", "close", "rename"}
          => unc.adding
    /\ pc \in {"copy", "chmod", "close", "rename"} => unc.tmp = TmpFile(cur.tmpPath).content

\* Both processors found one file with its header and added it to another.
C20_Witness ==
    /\ pc = "done"
    /\ err = NoErr
    /\ ~dryRun
    /\ cfgHeader # <<>>
    /\ mutated # {}
    /\ unc.mutated = mutated
    /\ \E d \in unc.decisions : d.has /\ d.path \notin mutated
    /\ \E p \in mutated : unc.files[p] = files[p].content /\ files[p].content # pre[p].content

====
